---- MODULE Spec2Model ----
(***************************************************************************)
(* ddp_mnist.py: one training job of world_size processes.  Every process  *)
(* runs the script's __main__ block and main() once, from the reading of   *)
(* the environment to destroy_process_group.  The processes share nothing  *)
(* but the collective operations of the process group (the rendezvous of   *)
(* init_process_group, the parameter broadcast of the                      *)
(* DistributedDataParallel constructor, the gradient all-reduce of every   *)
(* backward()).  Each process has its own log file (the name holds its     *)
(* pid), its own sampler, lists and accumulators.                          *)
(*                                                                         *)
(* Values.  time.time() is read at the resolution the log prints           *)
(* ({:.3f}, one tick = 1 ms) and a reading is any value of the wall clock: *)
(* the clock may be set back between two readings.  The quotient           *)
(* batch_loss_scalar / x.shape[0] is drawn, at the resolution {:.4f}       *)
(* prints, when .item() produces the scalar; a cross-entropy loss is never *)
(* negative.                                                               *)
(***************************************************************************)
EXTENDS Integers, Sequences, FiniteSets, TLC

\* Bounds of the model.
MaxWorld == 2      \* largest WORLD_SIZE
epochs == 2        \* main's parameter epochs (the script passes 50)
batch_size == 2    \* the script uses 256
TrainSize == 5     \* len(train_dataset)
TestSize == 2      \* len(test_dataset)

\* DistributedSampler(..., seed=42)
Seed == 42
\* the lines written after open(file_path, 'w')
HeaderLines == 3

EnvKeys == {"MASTER_ADDR", "MASTER_PORT", "RANK", "WORLD_SIZE"}

VARIABLES
    world_size,        \* int(env_dict['WORLD_SIZE']): the number of processes of the job
    env,               \* env[p]: the bootstrap variables present in os.environ of p
    gpus,              \* gpus[p]: the number of GPUs of the host p runs on
    pc,                \* pc[p]: the statement p executes next
    failed,            \* failed[p]: an uncaught exception ended p at pc[p]
    numGpus,           \* num_gpus of p's host (-1 before device_count)
    curDevice,         \* the index given to torch.cuda.set_device (-1: none yet)
    device,            \* the index of main's torch.device(f'cuda:{rank}') (-1: none yet)
    pg,                \* the process group of p: "none", "init", "destroyed"
    coll,              \* number of collective operations p has entered
    f_log,             \* f_log[p]: p has opened its log file
    log,               \* the lines of p's log file
    calls,             \* number of times p has entered _print_and_log
    samplerEpoch,      \* train_loader.sampler.epoch
    shuffleSeed,       \* the seed of the permutation the current train iterator draws from
    epochsSet,         \* the arguments of p's set_epoch calls, in order
    i,                 \* the epoch index of the for loop of main
    tb,                \* training batches of epoch i processed so far
    vb,                \* validation batches of epoch i processed so far
    ops,               \* the framework calls made on the current training batch, in order
    params,            \* version of the model parameters: the number of updates applied
    epoch_loss,
    val_loss,
    drawn,             \* the losses of the batches of the current pass, in order
    time_epoch,
    time_training,
    time_val,
    time_training_ls,
    time_val_ls,
    range_it,          \* the next value of the iterator of range(epochs)
    k,                 \* the position of the zip iterator of the timing summary
    phases             \* the lifecycle milestones p has passed, in order

vCtl == <<pc, failed>>
vEnv == <<world_size, env, gpus, numGpus, curDevice, device, pg, coll>>
vLog == <<f_log, log, calls, k>>
vSamp == <<samplerEpoch, shuffleSeed, epochsSet>>
vLoop == <<i, range_it, tb, vb, ops, params, epoch_loss, val_loss, drawn>>
vTime == <<time_epoch, time_training, time_val, time_training_ls, time_val_ls>>
vars == <<vCtl, vEnv, vLog, vSamp, vLoop, vTime, phases>>

\* the ranks of the largest job, the ranks of this job
Ranks == 0 .. MaxWorld - 1
Procs == 0 .. world_size - 1

\* The readings of time.time() the model tells apart: an earlier and a later
\* instant, in either order.  The losses it tells apart: zero and a positive one.
ClockVals == {0, 1}
LossVals == {0, 1}
\* The hosts: without a GPU, with one GPU, with a GPU for every process of the
\* largest job.
GpuCounts == {0, 1, MaxWorld}
\* One reading, one loss: the runs in which these values play no part.
OneClock == {0}
OneLoss == {0}

Ceil(a, b) == (a + b - 1) \div b

\* the index list not padded: rank r draws the indices r, r + num_replicas, ...
NumSamplesNotPadded(r) == Cardinality({n \in 0 .. TrainSize - 1 : n % world_size = r})

\* DistributedSampler.num_samples with drop_last=False: the index list is padded
\* to a multiple of num_replicas, so every rank draws the same number of samples.
NumSamples(r) == Ceil(TrainSize, world_size)

\* len(train_loader) of rank r, len(test_loader)
TrainBatches(r) == Ceil(NumSamples(r), batch_size)
ValBatches == Ceil(TestSize, batch_size)

\* the test "if rank == 0:" left out
IsLoggerAnyRank(p) == TRUE

\* "if rank == 0:"
IsLogger(p) == p = 0

Goto(p, l) == pc' = [pc EXCEPT ![p] = l]
At(p, l) == p \in Procs /\ pc[p] = l /\ ~failed[p]
Mark(p, m) == phases' = [phases EXCEPT ![p] = Append(@, m)]

Envs == {EnvKeys} \cup {EnvKeys \ {key} : key \in EnvKeys}

InitW(W, G) ==
    /\ world_size \in W
    /\ env \in [Procs -> Envs]
    /\ gpus \in [Procs -> G]
    /\ pc = [p \in Procs |-> "env"]
    /\ failed = [p \in Procs |-> FALSE]
    /\ numGpus = [p \in Procs |-> -1]
    /\ curDevice = [p \in Procs |-> -1]
    /\ device = [p \in Procs |-> -1]
    /\ pg = [p \in Procs |-> "none"]
    /\ coll = [p \in Procs |-> 0]
    /\ f_log = [p \in Procs |-> FALSE]
    /\ log = [p \in Procs |-> <<>>]
    /\ calls = [p \in Procs |-> 0]
    /\ samplerEpoch = [p \in Procs |-> 0]
    /\ shuffleSeed = [p \in Procs |-> -1]
    /\ epochsSet = [p \in Procs |-> <<>>]
    /\ i = [p \in Procs |-> 0]
    /\ range_it = [p \in Procs |-> 0]
    /\ tb = [p \in Procs |-> 0]
    /\ vb = [p \in Procs |-> 0]
    /\ ops = [p \in Procs |-> <<>>]
    /\ params = [p \in Procs |-> 0]
    /\ epoch_loss = [p \in Procs |-> 0]
    /\ val_loss = [p \in Procs |-> 0]
    /\ drawn = [p \in Procs |-> <<>>]
    /\ time_epoch = [p \in Procs |-> 0]
    /\ time_training = [p \in Procs |-> 0]
    /\ time_val = [p \in Procs |-> 0]
    /\ time_training_ls = [p \in Procs |-> <<>>]
    /\ time_val_ls = [p \in Procs |-> <<>>]
    /\ k = [p \in Procs |-> 0]
    /\ phases = [p \in Procs |-> <<>>]

\* _print_and_log(in_str, f_log): one line more in the file
PrintAndLog(p, line) ==
    /\ calls' = [calls EXCEPT ![p] = @ + 1]
    /\ log' = [log EXCEPT ![p] = Append(@, line)]

\* A collective operation that p has entered completes once every rank of the
\* group has entered its operation of the same sequence number.
Arrived(p) == \A q \in Procs : coll[q] >= coll[p]
Enter(p) == coll' = [coll EXCEPT ![p] = @ + 1]

----
\* __main__, lines 162-177

ReadEnv(p) ==
    /\ At(p, "env") /\ env[p] = EnvKeys
    /\ Goto(p, "device_count")
    /\ UNCHANGED <<failed, vEnv, vLog, vSamp, vLoop, vTime, phases>>

\* os.environ.get(key) in the place of os.environ[key]
EnvMissingIgnored(p) ==
    /\ At(p, "env") /\ env[p] # EnvKeys
    /\ Goto(p, "device_count")
    /\ UNCHANGED <<failed, vEnv, vLog, vSamp, vLoop, vTime, phases>>

\* os.environ[key] raises KeyError
EnvMissing(p) ==
    /\ At(p, "env") /\ env[p] # EnvKeys
    /\ failed' = [failed EXCEPT ![p] = TRUE]
    /\ UNCHANGED <<pc, vEnv, vLog, vSamp, vLoop, vTime, phases>>

DeviceCount(p) ==
    /\ At(p, "device_count")
    /\ numGpus' = [numGpus EXCEPT ![p] = gpus[p]]
    /\ Goto(p, "set_device")
    /\ UNCHANGED <<failed, world_size, env, gpus, curDevice, device, pg, coll,
                   vLog, vSamp, vLoop, vTime, phases>>

SetDevice(p) ==
    /\ At(p, "set_device") /\ numGpus[p] > 0
    /\ curDevice' = [curDevice EXCEPT ![p] = p % numGpus[p]]
    /\ Mark(p, "set_device")
    /\ Goto(p, "init_pg")
    /\ UNCHANGED <<failed, world_size, env, gpus, numGpus, device, pg, coll,
                   vLog, vSamp, vLoop, vTime>>

\* rank % 0 raises ZeroDivisionError
NoGpu(p) ==
    /\ At(p, "set_device") /\ numGpus[p] = 0
    /\ failed' = [failed EXCEPT ![p] = TRUE]
    /\ UNCHANGED <<pc, vEnv, vLog, vSamp, vLoop, vTime, phases>>

InitProcessGroup(p) ==
    /\ At(p, "init_pg")
    /\ Enter(p)
    /\ Goto(p, "init_pg_wait")
    /\ UNCHANGED <<failed, world_size, env, gpus, numGpus, curDevice, device, pg,
                   vLog, vSamp, vLoop, vTime, phases>>

InitProcessGroupDone(p) ==
    /\ At(p, "init_pg_wait") /\ Arrived(p)
    /\ pg' = [pg EXCEPT ![p] = "init"]
    /\ Mark(p, "init_pg")
    /\ Goto(p, "open_log")
    /\ UNCHANGED <<failed, world_size, env, gpus, numGpus, curDevice, device, coll,
                   vLog, vSamp, vLoop, vTime>>

OpenLog(p) ==
    /\ At(p, "open_log") /\ IsLogger(p)
    /\ f_log' = [f_log EXCEPT ![p] = TRUE]
    /\ log' = [log EXCEPT ![p] = <<>>]
    /\ Mark(p, "open_log")
    /\ Goto(p, "header")
    /\ UNCHANGED <<failed, vEnv, calls, k, vSamp, vLoop, vTime>>

NoLog(p) ==
    /\ At(p, "open_log") /\ ~IsLogger(p)
    /\ Goto(p, "loaders")
    /\ UNCHANGED <<failed, vEnv, vLog, vSamp, vLoop, vTime, phases>>

HeaderLine(n, p) ==
    CASE n = 0 -> [kind |-> "path"]
      [] n = 1 -> [kind |-> "setup", env |-> env[p]]
      [] OTHER -> [kind |-> "gpus", gpus |-> world_size, rank |-> p]

Header(p) ==
    /\ At(p, "header")
    /\ PrintAndLog(p, HeaderLine(Len(log[p]), p))
    /\ IF Len(log[p]) = HeaderLines - 1
         THEN Mark(p, "header") /\ Goto(p, "loaders")
         ELSE UNCHANGED <<pc, phases>>
    /\ UNCHANGED <<failed, vEnv, f_log, k, vSamp, vLoop, vTime>>

\* create_data_loaders, lines 21-57
CreateDataLoaders(p) ==
    /\ At(p, "loaders")
    /\ samplerEpoch' = [samplerEpoch EXCEPT ![p] = 0]
    /\ Mark(p, "loaders")
    /\ Goto(p, "create_model")
    /\ UNCHANGED <<failed, vEnv, vLog, shuffleSeed, epochsSet, vLoop, vTime>>

\* create_model, lines 60-70
CreateModel(p) ==
    /\ At(p, "create_model")
    /\ params' = [params EXCEPT ![p] = 0]
    /\ Mark(p, "model")
    /\ Goto(p, "device")
    /\ UNCHANGED <<failed, vEnv, vLog, vSamp, i, range_it, tb, vb, ops,
                   epoch_loss, val_loss, drawn, vTime>>

----
\* main, lines 78-87

\* device = torch.device(f'cuda:{rank}')
MainDevice(p) ==
    /\ At(p, "device")
    /\ device' = [device EXCEPT ![p] = p]
    /\ Goto(p, "to_device")
    /\ UNCHANGED <<failed, world_size, env, gpus, numGpus, curDevice, pg, coll,
                   vLog, vSamp, vLoop, vTime, phases>>

ToDevice(p) ==
    /\ At(p, "to_device") /\ device[p] < numGpus[p]
    /\ Goto(p, "ddp")
    /\ UNCHANGED <<failed, vEnv, vLog, vSamp, vLoop, vTime, phases>>

\* model.to(device) raises "invalid device ordinal"
BadDevice(p) ==
    /\ At(p, "to_device") /\ device[p] >= numGpus[p]
    /\ failed' = [failed EXCEPT ![p] = TRUE]
    /\ UNCHANGED <<pc, vEnv, vLog, vSamp, vLoop, vTime, phases>>

\* DistributedDataParallel(...) broadcasts the parameters of rank 0
Ddp(p) ==
    /\ At(p, "ddp")
    /\ Enter(p)
    /\ Goto(p, "ddp_wait")
    /\ UNCHANGED <<failed, world_size, env, gpus, numGpus, curDevice, device, pg,
                   vLog, vSamp, vLoop, vTime, phases>>

DdpDone(p) ==
    /\ At(p, "ddp_wait") /\ Arrived(p)
    /\ Goto(p, "optim")
    /\ UNCHANGED <<failed, vEnv, vLog, vSamp, vLoop, vTime, phases>>

Optim(p) ==
    /\ At(p, "optim")
    /\ time_training_ls' = [time_training_ls EXCEPT ![p] = <<>>]
    /\ time_val_ls' = [time_val_ls EXCEPT ![p] = <<>>]
    /\ range_it' = [range_it EXCEPT ![p] = 0]
    /\ Goto(p, "for_epoch")
    /\ UNCHANGED <<failed, vEnv, vLog, vSamp, i, tb, vb, ops, params,
                   epoch_loss, val_loss, drawn, time_epoch, time_training,
                   time_val, phases>>

----
\* main, lines 88-133: the epoch loop.  CV: the readings time.time() may return;
\* LV: the values batch_loss_scalar / x.shape[0] may take.

\* for i in range(epochs):
ForEpoch(p) ==
    /\ At(p, "for_epoch") /\ range_it[p] < epochs
    /\ i' = [i EXCEPT ![p] = range_it[p]]
    /\ range_it' = [range_it EXCEPT ![p] = @ + 1]
    /\ Goto(p, "epoch_start")
    /\ UNCHANGED <<failed, vEnv, vLog, vSamp, tb, vb, ops, params,
                   epoch_loss, val_loss, drawn, vTime, phases>>

ForEpochEnd(p) ==
    /\ At(p, "for_epoch") /\ range_it[p] >= epochs
    /\ Mark(p, "epochs")
    /\ Goto(p, "summary")
    /\ UNCHANGED <<failed, vEnv, vLog, vSamp, vLoop, vTime>>

\* train_loader.sampler.set_epoch(i) left out
EpochStartNoSetEpoch(p, CV) ==
    /\ At(p, "epoch_start")
    /\ \E t \in CV : time_epoch' = [time_epoch EXCEPT ![p] = t]
    /\ epoch_loss' = [epoch_loss EXCEPT ![p] = 0]
    /\ drawn' = [drawn EXCEPT ![p] = <<>>]
    /\ Goto(p, "train_iter")
    /\ UNCHANGED <<failed, vEnv, vLog, vSamp, i, range_it, tb, vb, ops,
                   params, val_loss, time_training, time_val,
                   time_training_ls, time_val_ls, phases>>

\* epoch_loss = 0 moved out of the loop
EpochStartNoReset(p, CV) ==
    /\ At(p, "epoch_start")
    /\ \E t \in CV : time_epoch' = [time_epoch EXCEPT ![p] = t]
    /\ samplerEpoch' = [samplerEpoch EXCEPT ![p] = i[p]]
    /\ epochsSet' = [epochsSet EXCEPT ![p] = Append(@, i[p])]
    /\ drawn' = [drawn EXCEPT ![p] = <<>>]
    /\ Goto(p, "train_iter")
    /\ UNCHANGED <<failed, vEnv, vLog, shuffleSeed, i, range_it, tb, vb, ops,
                   params, epoch_loss, val_loss, time_training, time_val,
                   time_training_ls, time_val_ls, phases>>

\* lines 89-93
EpochStart(p, CV) ==
    /\ At(p, "epoch_start")
    /\ \E t \in CV : time_epoch' = [time_epoch EXCEPT ![p] = t]
    /\ samplerEpoch' = [samplerEpoch EXCEPT ![p] = i[p]]
    /\ epochsSet' = [epochsSet EXCEPT ![p] = Append(@, i[p])]
    /\ epoch_loss' = [epoch_loss EXCEPT ![p] = 0]
    /\ drawn' = [drawn EXCEPT ![p] = <<>>]
    /\ Goto(p, "train_iter")
    /\ UNCHANGED <<failed, vEnv, vLog, shuffleSeed, i, range_it, tb, vb, ops,
                   params, val_loss, time_training, time_val,
                   time_training_ls, time_val_ls, phases>>

\* lines 95-96: iter(train_loader) asks the sampler for its permutation of
\* this epoch, which DistributedSampler seeds with seed + epoch
TrainIter(p) ==
    /\ At(p, "train_iter")
    /\ shuffleSeed' = [shuffleSeed EXCEPT ![p] = Seed + samplerEpoch[p]]
    /\ tb' = [tb EXCEPT ![p] = 0]
    /\ Goto(p, "train_next")
    /\ UNCHANGED <<failed, vEnv, vLog, samplerEpoch, epochsSet, i, range_it,
                   vb, ops, params, epoch_loss, val_loss, drawn, vTime, phases>>

\* for x, y in pbar: ... lines 96-100
TrainNext(p) ==
    /\ At(p, "train_next") /\ tb[p] < TrainBatches(p)
    /\ ops' = [ops EXCEPT ![p] = <<>>]
    /\ Goto(p, "zero_grad")
    /\ UNCHANGED <<failed, vEnv, vLog, vSamp, i, range_it, tb, vb, params,
                   epoch_loss, val_loss, drawn, vTime, phases>>

Op(p, name, next) ==
    /\ ops' = [ops EXCEPT ![p] = Append(@, name)]
    /\ Goto(p, next)

ZeroGrad(p) ==
    /\ At(p, "zero_grad")
    /\ Op(p, "zero_grad", "forward")
    /\ UNCHANGED <<failed, vEnv, vLog, vSamp, i, range_it, tb, vb, params,
                   epoch_loss, val_loss, drawn, vTime, phases>>

Forward(p) ==
    /\ At(p, "forward")
    /\ Op(p, "forward", "loss")
    /\ UNCHANGED <<failed, vEnv, vLog, vSamp, i, range_it, tb, vb, params,
                   epoch_loss, val_loss, drawn, vTime, phases>>

\* batch_loss.backward() left out
LossNoBackward(p) ==
    /\ At(p, "loss")
    /\ Op(p, "loss", "opt_step")
    /\ UNCHANGED <<failed, vEnv, vLog, vSamp, i, range_it, tb, vb, params,
                   epoch_loss, val_loss, drawn, vTime, phases>>

Loss(p) ==
    /\ At(p, "loss")
    /\ Op(p, "loss", "backward")
    /\ UNCHANGED <<failed, vEnv, vLog, vSamp, i, range_it, tb, vb, params,
                   epoch_loss, val_loss, drawn, vTime, phases>>

\* batch_loss.backward(): the all-reduce of the gradients
Backward(p) ==
    /\ At(p, "backward")
    /\ Enter(p)
    /\ Op(p, "backward", "backward_wait")
    /\ UNCHANGED <<failed, world_size, env, gpus, numGpus, curDevice, device, pg,
                   vLog, vSamp, i, range_it, tb, vb, params,
                   epoch_loss, val_loss, drawn, vTime, phases>>

BackwardDone(p) ==
    /\ At(p, "backward_wait") /\ Arrived(p)
    /\ Goto(p, "opt_step")
    /\ UNCHANGED <<failed, vEnv, vLog, vSamp, vLoop, vTime, phases>>

OptimizerStep(p) ==
    /\ At(p, "opt_step")
    /\ params' = [params EXCEPT ![p] = @ + 1]
    /\ Op(p, "step", "accum")
    /\ UNCHANGED <<failed, vEnv, vLog, vSamp, i, range_it, tb, vb,
                   epoch_loss, val_loss, drawn, vTime, phases>>

\* lines 106-108
Accum(p, LV) ==
    /\ At(p, "accum")
    /\ \E l \in LV :
         /\ epoch_loss' = [epoch_loss EXCEPT ![p] = @ + l]
         /\ drawn' = [drawn EXCEPT ![p] = Append(@, l)]
    /\ tb' = [tb EXCEPT ![p] = @ + 1]
    /\ Goto(p, "train_next")
    /\ UNCHANGED <<failed, vEnv, vLog, vSamp, i, range_it, vb, ops, params,
                   val_loss, vTime, phases>>

\* line 109
TrainEnd(p, CV) ==
    /\ At(p, "train_next") /\ tb[p] >= TrainBatches(p)
    /\ \E t \in CV : time_training' = [time_training EXCEPT ![p] = t - time_epoch[p]]
    /\ Goto(p, "val_start")
    /\ UNCHANGED <<failed, vEnv, vLog, vSamp, vLoop, time_epoch, time_val,
                   time_training_ls, time_val_ls, phases>>

\* lines 112-116
ValStart(p, CV) ==
    /\ At(p, "val_start")
    /\ \E t \in CV : time_val' = [time_val EXCEPT ![p] = t]
    /\ val_loss' = [val_loss EXCEPT ![p] = 0]
    /\ drawn' = [drawn EXCEPT ![p] = <<>>]
    /\ vb' = [vb EXCEPT ![p] = 0]
    /\ Goto(p, "val_next")
    /\ UNCHANGED <<failed, vEnv, vLog, vSamp, i, range_it, tb, ops, params,
                   epoch_loss, time_epoch, time_training,
                   time_training_ls, time_val_ls, phases>>

\* lines 117-122: forward and loss under no_grad
ValForward(p) ==
    /\ At(p, "val_next") /\ vb[p] < ValBatches
    /\ Goto(p, "val_accum")
    /\ UNCHANGED <<failed, vEnv, vLog, vSamp, vLoop, vTime, phases>>

\* lines 123-126
ValAccum(p, LV) ==
    /\ At(p, "val_accum")
    /\ \E l \in LV :
         /\ val_loss' = [val_loss EXCEPT ![p] = @ + l]
         /\ drawn' = [drawn EXCEPT ![p] = Append(@, l)]
    /\ vb' = [vb EXCEPT ![p] = @ + 1]
    /\ Goto(p, "val_next")
    /\ UNCHANGED <<failed, vEnv, vLog, vSamp, i, range_it, tb, ops, params,
                   epoch_loss, vTime, phases>>

\* line 127
ValEnd(p, CV) ==
    /\ At(p, "val_next") /\ vb[p] >= ValBatches
    /\ \E t \in CV : time_val' = [time_val EXCEPT ![p] = t - time_val[p]]
    /\ Goto(p, "log_epoch")
    /\ UNCHANGED <<failed, vEnv, vLog, vSamp, vLoop, time_epoch, time_training,
                   time_training_ls, time_val_ls, phases>>

\* lines 128-129
LogLoss(p) ==
    /\ At(p, "log_epoch") /\ IsLogger(p)
    /\ PrintAndLog(p, [kind |-> "loss", epoch |-> i[p],
                       train_loss |-> epoch_loss[p], val_loss |-> val_loss[p]])
    /\ Goto(p, "log_time")
    /\ UNCHANGED <<failed, vEnv, f_log, k, vSamp, vLoop, vTime, phases>>

\* the second _print_and_log of the epoch left out
LogTimeLeftOut(p) ==
    /\ At(p, "log_time")
    /\ Goto(p, "append")
    /\ UNCHANGED <<failed, vEnv, vLog, vSamp, vLoop, vTime, phases>>

\* lines 130-131
LogTime(p) ==
    /\ At(p, "log_time")
    /\ PrintAndLog(p, [kind |-> "time", training |-> time_training[p],
                       val |-> time_val[p]])
    /\ Goto(p, "append")
    /\ UNCHANGED <<failed, vEnv, f_log, k, vSamp, vLoop, vTime, phases>>

SkipLog(p) ==
    /\ At(p, "log_epoch") /\ ~IsLogger(p)
    /\ Goto(p, "append")
    /\ UNCHANGED <<failed, vEnv, vLog, vSamp, vLoop, vTime, phases>>

\* lines 132-133
AppendTimes(p) ==
    /\ At(p, "append")
    /\ time_training_ls' = [time_training_ls EXCEPT ![p] = Append(@, time_training[p])]
    /\ time_val_ls' = [time_val_ls EXCEPT ![p] = Append(@, time_val[p])]
    /\ Goto(p, "for_epoch")
    /\ UNCHANGED <<failed, vEnv, vLog, vSamp, vLoop, time_epoch, time_training,
                   time_val, phases>>

----
\* main, lines 135-141, and line 189

SummaryHeader(p) ==
    /\ At(p, "summary") /\ IsLogger(p)
    /\ PrintAndLog(p, [kind |-> "overall"])
    /\ k' = [k EXCEPT ![p] = 0]
    /\ Goto(p, "summary_zip")
    /\ UNCHANGED <<failed, vEnv, f_log, vSamp, vLoop, vTime, phases>>

NoSummary(p) ==
    /\ At(p, "summary") /\ ~IsLogger(p)
    /\ Goto(p, "return")
    /\ UNCHANGED <<failed, vEnv, vLog, vSamp, vLoop, vTime, phases>>

Min(a, b) == IF a < b THEN a ELSE b

\* zip(range(epochs), time_training_ls, time_val_ls) stops with its shortest argument
ZipLen(p) == Min(epochs, Min(Len(time_training_ls[p]), Len(time_val_ls[p])))

\* the loop over range(epochs) alone: it prints the durations of the last epoch
SummaryLineLastEpoch(p) ==
    /\ At(p, "summary_zip") /\ k[p] < ZipLen(p)
    /\ i' = [i EXCEPT ![p] = k[p]]
    /\ PrintAndLog(p, [kind |-> "summary", epoch |-> k[p],
                       training |-> time_training[p], val |-> time_val[p]])
    /\ k' = [k EXCEPT ![p] = @ + 1]
    /\ UNCHANGED <<vCtl, vEnv, f_log, vSamp, range_it, tb, vb, ops, params,
                   epoch_loss, val_loss, drawn, vTime, phases>>

\* lines 137-139: the loop rebinds i, time_training and time_val
SummaryLine(p) ==
    /\ At(p, "summary_zip") /\ k[p] < ZipLen(p)
    /\ i' = [i EXCEPT ![p] = k[p]]
    /\ time_training' = [time_training EXCEPT ![p] = time_training_ls[p][k[p] + 1]]
    /\ time_val' = [time_val EXCEPT ![p] = time_val_ls[p][k[p] + 1]]
    /\ PrintAndLog(p, [kind |-> "summary", epoch |-> k[p],
                       training |-> time_training_ls[p][k[p] + 1],
                       val |-> time_val_ls[p][k[p] + 1]])
    /\ k' = [k EXCEPT ![p] = @ + 1]
    /\ UNCHANGED <<vCtl, vEnv, f_log, vSamp, range_it, tb, vb, ops, params,
                   epoch_loss, val_loss, drawn, time_epoch,
                   time_training_ls, time_val_ls, phases>>

SummaryEnd(p) ==
    /\ At(p, "summary_zip") /\ k[p] >= ZipLen(p)
    /\ Mark(p, "timings")
    /\ Goto(p, "return")
    /\ UNCHANGED <<failed, vEnv, vLog, vSamp, vLoop, vTime>>

\* return model.module
Return(p) ==
    /\ At(p, "return")
    /\ Goto(p, "destroy")
    /\ UNCHANGED <<failed, vEnv, vLog, vSamp, vLoop, vTime, phases>>

\* the teardown left out
DestroyLeftOut(p) ==
    /\ At(p, "destroy")
    /\ Goto(p, "done")
    /\ UNCHANGED <<failed, vEnv, vLog, vSamp, vLoop, vTime, phases>>

\* torch.distributed.destroy_process_group()
DestroyProcessGroup(p) ==
    /\ At(p, "destroy")
    /\ pg' = [pg EXCEPT ![p] = "destroyed"]
    /\ Mark(p, "destroy")
    /\ Goto(p, "done")
    /\ UNCHANGED <<failed, world_size, env, gpus, numGpus, curDevice, device, coll,
                   vLog, vSamp, vLoop, vTime>>

----
\* A call into the framework, the device or the file system raises: nothing
\* catches it, the process ends where it is.
Fallible == {"device_count", "set_device", "init_pg", "init_pg_wait", "open_log",
             "header", "loaders", "create_model", "to_device", "ddp", "ddp_wait",
             "optim", "epoch_start", "train_iter", "train_next", "zero_grad",
             "forward", "loss", "backward", "backward_wait", "opt_step", "accum",
             "val_start", "val_next", "val_accum", "log_epoch", "log_time",
             "summary", "summary_zip", "destroy"}

Fail(p) ==
    /\ p \in Procs
    /\ ~failed[p] /\ pc[p] \in Fallible
    /\ failed' = [failed EXCEPT ![p] = TRUE]
    /\ UNCHANGED <<pc, vEnv, vLog, vSamp, vLoop, vTime, phases>>

\* The steps of a process for which "rank == 0" holds, on a host with a GPU
RunLogger(p, CV, LV) ==
    \/ ReadEnv(p) \/ EnvMissing(p) \/ DeviceCount(p) \/ SetDevice(p)
    \/ InitProcessGroup(p) \/ InitProcessGroupDone(p)
    \/ OpenLog(p) \/ Header(p)
    \/ CreateDataLoaders(p) \/ CreateModel(p)
    \/ MainDevice(p) \/ ToDevice(p) \/ Ddp(p) \/ DdpDone(p) \/ Optim(p)
    \/ ForEpoch(p) \/ ForEpochEnd(p) \/ EpochStart(p, CV) \/ TrainIter(p)
    \/ TrainNext(p) \/ ZeroGrad(p) \/ Forward(p) \/ Loss(p) \/ Backward(p)
    \/ BackwardDone(p) \/ OptimizerStep(p) \/ Accum(p, LV) \/ TrainEnd(p, CV)
    \/ ValStart(p, CV) \/ ValForward(p) \/ ValAccum(p, LV) \/ ValEnd(p, CV)
    \/ LogLoss(p) \/ LogTime(p) \/ AppendTimes(p)
    \/ SummaryHeader(p) \/ SummaryLine(p) \/ SummaryEnd(p)
    \/ Return(p) \/ DestroyProcessGroup(p)

\* The steps p takes by itself
Run(p, CV, LV) ==
    \/ RunLogger(p, CV, LV)
    \/ NoLog(p) \/ SkipLog(p) \/ NoSummary(p) \/ NoGpu(p) \/ BadDevice(p)

\* A job of 1 .. MaxWorld processes; every clock reading and every loss is the
\* same value.
Init == InitW(1 .. MaxWorld, GpuCounts)
Next == \E p \in Ranks : Run(p, OneClock, OneLoss) \/ Fail(p)
Spec == Init /\ [][Next]_vars

\* The same job, every process scheduled as long as it can take a step of its
\* own.  A failure is never forced.
FairSpec == Spec /\ \A p \in Ranks : WF_vars(Run(p, OneClock, OneLoss))

\* A job of one process (WORLD_SIZE = 1, RANK = 0) on a host with one GPU, in
\* which no call into the framework fails, with every clock reading and every
\* loss.
InitData == InitW({1}, {1})
NextData == \E p \in Ranks : RunLogger(p, ClockVals, LossVals)
SpecData == InitData /\ [][NextData]_vars

----
\* The statements of the script in the order of the text; a loop's test follows
\* the loop's body.
Order == <<"env", "device_count", "set_device", "init_pg", "init_pg_wait", "open_log",
           "header", "loaders", "create_model", "device", "to_device", "ddp",
           "ddp_wait", "optim",
           "epoch_start", "train_iter",
           "train_next", "zero_grad", "forward", "loss", "backward", "backward_wait",
           "opt_step", "accum",
           "val_start", "val_next", "val_accum",
           "log_epoch", "log_time", "append", "for_epoch",
           "summary", "summary_zip", "return", "destroy", "done">>

Idx(l) == CHOOSE n \in 1 .. Len(Order) : Order[n] = l

TrainLabels == {"train_next", "zero_grad", "forward", "loss", "backward",
                "backward_wait", "opt_step", "accum"}
ValLabels == {"val_next", "val_accum"}
LogLabels == {"log_epoch", "log_time"}
IterLabels == {"epoch_start", "train_iter", "val_start", "append"}
                  \cup TrainLabels \cup ValLabels \cup LogLabels
PostLabels == {"summary", "summary_zip", "return", "destroy", "done"}

\* Where p is in its run: the epoch loop's iteration, the loop or statement, the
\* iteration of that loop, the statement.
Position(p) ==
    LET l == pc[p] IN
    << IF l \in PostLabels THEN epochs + 1
         ELSE IF l \in IterLabels \cup {"for_epoch"} THEN range_it[p] ELSE 0,
       IF l \in TrainLabels THEN Idx("train_next")
         ELSE IF l \in ValLabels THEN Idx("val_next") ELSE Idx(l),
       IF l \in TrainLabels THEN tb[p]
         ELSE IF l \in ValLabels THEN vb[p]
         ELSE IF l = "header" THEN Len(log[p])
         ELSE IF l = "summary_zip" THEN k[p] ELSE 0,
       Idx(l) >>

\* the lexicographic order of positions
Before(a, b) ==
    \E n \in 1 .. 4 : a[n] < b[n] /\ \A m \in 1 .. n - 1 : a[m] = b[m]

\* everything p owns, but failed[p]
View(p) ==
    << pc[p], numGpus[p], curDevice[p], device[p], pg[p], coll[p], f_log[p],
       log[p], calls[p], samplerEpoch[p], shuffleSeed[p], epochsSet[p], i[p],
       range_it[p], tb[p], vb[p], ops[p], params[p], epoch_loss[p], val_loss[p],
       drawn[p], time_epoch[p], time_training[p], time_val[p],
       time_training_ls[p], time_val_ls[p], k[p], phases[p] >>

RECURSIVE Sum(_)
Sum(q) == IF q = <<>> THEN 0 ELSE Head(q) + Sum(Tail(q))

IsPrefix(a, b) == Len(a) <= Len(b) /\ \A n \in 1 .. Len(a) : a[n] = b[n]

Done(p) == pc[p] = "done"
AllDone == \A p \in Procs : Done(p)
SomeFailed == \E p \in Procs : failed[p]

----
\* C1: only the process of rank 0 opens a log file, enters _print_and_log or
\* writes a line, whatever the interleaving and wherever the processes are.
C1_OnlyRank0Logs ==
    \A p \in Procs : p # 0 => ~f_log[p] /\ log[p] = <<>> /\ calls[p] = 0

\* a process of rank 1 has finished, and so has rank 0, its log complete
C1_Witness ==
    /\ world_size > 1
    /\ Done(1) /\ Done(0)
    /\ Len(log[0]) = HeaderLines + 3 * epochs + 1

----
\* C3: failures are fail-stop.  A process with a bootstrap variable missing ends
\* at the reading of the environment: no device selected, no process group, no
\* log file.  A process that has failed never takes a step again, and a process
\* that has not failed only moves forward in the script: no statement is
\* executed a second time at the same iteration.
EndsAtEnv(p) ==
    /\ pc[p] = "env"
    /\ curDevice[p] = -1 /\ device[p] = -1 /\ pg[p] = "none" /\ coll[p] = 0
    /\ ~f_log[p] /\ log[p] = <<>> /\ phases[p] = <<>>

FailStopStep(p) ==
    /\ failed[p] => failed'[p] /\ View(p)' = View(p)
    /\ ~failed[p] /\ failed'[p] => View(p)' = View(p)
    /\ ~failed'[p] /\ View(p)' # View(p) => Before(Position(p), Position(p)')

C3_FailStop ==
    /\ [](\A p \in Procs : env[p] # EnvKeys => EndsAtEnv(p))
    /\ [][\A p \in Procs : FailStopStep(p)]_vars

\* one process has ended on a missing variable, another in a framework call
C3_Witness ==
    \E p, q \in Procs :
        /\ failed[p] /\ env[p] # EnvKeys
        /\ failed[q] /\ pc[q] = "init_pg_wait"

----
\* C4: every process passes the milestones of one linear lifecycle, in order
\* and once each: device index, process group, (rank 0: log file, header),
\* loaders, model, all epochs, (rank 0: timing summary), teardown.  The process
\* group exists during every statement of the epoch loop and of the summary,
\* and a process that has torn it down has nothing left to execute.
Lifecycle(p) ==
    IF p = 0
      THEN <<"set_device", "init_pg", "open_log", "header", "loaders", "model",
             "epochs", "timings", "destroy">>
      ELSE <<"set_device", "init_pg", "loaders", "model", "epochs", "destroy">>

C4_LinearLifecycle ==
    \A p \in Procs :
        /\ IsPrefix(phases[p], Lifecycle(p))
        /\ Done(p) <=> phases[p] = Lifecycle(p)
        /\ pc[p] \in IterLabels \cup {"for_epoch", "summary", "summary_zip", "return", "destroy"}
             => pg[p] = "init"
        /\ pg[p] = "destroyed" <=> Done(p)
        /\ Done(p) => range_it[p] = epochs /\ Len(epochsSet[p]) = epochs

\* all the processes of a job of several processes have finished
C4_Witness == world_size > 1 /\ AllDone

----
\* C5: in every process set_epoch is called once for each epoch, with the
\* epoch's index, in ascending order, and the iterator over the training
\* batches of epoch i draws its permutation from seed 42 and epoch i, so that
\* two processes in the same epoch draw from the same permutation.
InEpoch(p) == pc[p] \in IterLabels \ {"epoch_start"}

C5_SetEpoch ==
    /\ \A p \in Procs :
        /\ \A n \in 1 .. Len(epochsSet[p]) : epochsSet[p][n] = n - 1
        /\ InEpoch(p) => Len(epochsSet[p]) = i[p] + 1 /\ samplerEpoch[p] = i[p]
        /\ pc[p] \in TrainLabels => shuffleSeed[p] = Seed + i[p]
    /\ \A p, q \in Procs :
        pc[p] \in TrainLabels /\ pc[q] \in TrainLabels /\ i[p] = i[q]
            => shuffleSeed[p] = shuffleSeed[q]

\* two processes are in the training loop of the second epoch
C5_Witness ==
    \E p, q \in Procs :
        p # q /\ pc[p] = "accum" /\ pc[q] = "accum" /\ i[p] = 1 /\ i[q] = 1

----
\* C6: epochs run in ascending order; within an epoch all training batches
\* come before the first validation batch and the validation pass is over
\* when the epoch's lines are written; a training batch makes the calls
\* zero_grad, forward, loss, backward, step once each, in this order.
BatchOps == <<"zero_grad", "forward", "loss", "backward", "step">>

OpsAt(l) ==
    CASE l = "zero_grad" -> 0
      [] l = "forward" -> 1
      [] l = "loss" -> 2
      [] l = "backward" -> 3
      [] l = "backward_wait" -> 4
      [] l = "opt_step" -> 4
      [] l = "accum" -> 5

\* the epochs of the loss lines of p's log, in the order of the file
RECURSIVE LoggedEpochs(_)
LoggedEpochs(lines) ==
    IF lines = <<>> THEN <<>>
    ELSE IF Head(lines).kind = "loss"
           THEN <<Head(lines).epoch>> \o LoggedEpochs(Tail(lines))
           ELSE LoggedEpochs(Tail(lines))

C6_EpochOrder ==
    \A p \in Procs :
        /\ pc[p] \in TrainLabels \ {"train_next"}
             => ops[p] = SubSeq(BatchOps, 1, OpsAt(pc[p])) /\ tb[p] < TrainBatches(p)
        /\ pc[p] \in {"val_start"} \cup ValLabels \cup LogLabels \cup {"append"}
             => tb[p] = TrainBatches(p) /\ params[p] = (i[p] + 1) * TrainBatches(p)
        /\ pc[p] \in TrainLabels => params[p] = i[p] * TrainBatches(p) + tb[p]
                                       + (IF pc[p] = "accum" THEN 1 ELSE 0)
        /\ pc[p] \in LogLabels \cup {"append"} => vb[p] = ValBatches
        /\ p = 0 /\ InEpoch(p) /\ pc[p] \notin {"log_time", "append"}
             => LoggedEpochs(log[p]) = [n \in 1 .. i[p] |-> n - 1]
        /\ p = 0 /\ pc[p] \in {"log_time", "append"}
             => LoggedEpochs(log[p]) = [n \in 1 .. i[p] + 1 |-> n - 1]
        /\ InEpoch(p) => i[p] = range_it[p] - 1 /\ i[p] < epochs

\* rank 0 has written the lines of the second epoch
C6_Witness == pc[0] = "append" /\ i[0] = 1 /\ ~failed[0]

----
\* C9: in a job in which no process fails, no process is left waiting in a
\* collective operation: every process reaches the teardown, all of them after
\* the same number of collective operations (the rendezvous, the broadcast and
\* one all-reduce for each of the same number of training batches in each
\* epoch), and the statements that write the log enter no collective operation.
CollectivesOfRun(p) == 2 + epochs * TrainBatches(p)

LoggingLabels == {"open_log", "header", "log_epoch", "log_time", "summary", "summary_zip"}

C9_NoDeadlock ==
    /\ [](\A p \in Procs : pc[p] = "val_start" => tb[p] = TrainBatches(0))
    /\ [](\A p \in Procs : Done(p) => coll[p] = CollectivesOfRun(0))
    /\ [][\A p \in Procs : pc[p] \in LoggingLabels => coll'[p] = coll[p]]_vars
    /\ <>(SomeFailed \/ AllDone)

\* every process of the largest job has reached the end and none has failed
C9_Witness == world_size = MaxWorld /\ AllDone /\ ~SomeFailed

----
\* C10: the device main uses for the model and the batches, cuda:rank, is the
\* device selected at startup, rank % num_gpus, and exists on the host.
C10_DeviceSelected ==
    \A p \in Procs :
        device[p] # -1 => device[p] = curDevice[p] /\ device[p] < numGpus[p]
----
\* The places of the lines in the log of a complete run
LossAt(e) == HeaderLines + 2 * e + 1
TimeAt(e) == HeaderLines + 2 * e + 2
OverallAt == HeaderLines + 2 * epochs + 1
SummaryAt(e) == OverallAt + e + 1

\* the lines of p's log that name epoch e
LinesOfEpoch(p, e) ==
    {n \in 1 .. Len(log[p]) : "epoch" \in DOMAIN log[p][n] /\ log[p][n].epoch = e}

\* C2, as stated: after a complete run of rank 0 the log file exists and holds
\* one line for each epoch index, which carries the epoch's losses and
\* timings, none of them negative.
C2_OneLinePerEpoch ==
    Done(0) =>
        /\ f_log[0]
        /\ \A e \in 0 .. epochs - 1 :
             \E n \in 1 .. Len(log[0]) :
                 /\ LinesOfEpoch(0, e) = {n}
                 /\ {"train_loss", "val_loss", "training", "val"} \subseteq DOMAIN log[0][n]
                 /\ log[0][n].train_loss >= 0 /\ log[0][n].val_loss >= 0
                 /\ log[0][n].training >= 0 /\ log[0][n].val >= 0

\* C2, amended: after a complete run of rank 0 the log file exists and holds,
\* after the header, two consecutive lines for each epoch in ascending order:
\* the loss line of the epoch, with its index and two losses that are not
\* negative, and a timing line with the two durations measured in that epoch,
\* whatever their sign; the summary follows.
C2_TwoLinesPerEpoch ==
    Done(0) =>
        /\ f_log[0]
        /\ Len(log[0]) = SummaryAt(epochs - 1)
        /\ LoggedEpochs(log[0]) = [n \in 1 .. epochs |-> n - 1]
        /\ \A e \in 0 .. epochs - 1 :
             LET l == log[0][LossAt(e)]
                 t == log[0][TimeAt(e)]
             IN  /\ l.kind = "loss" /\ l.epoch = e
                 /\ l.train_loss >= 0 /\ l.val_loss >= 0
                 /\ t.kind = "time"
                 /\ t.training = time_training_ls[0][e + 1]
                 /\ t.val = time_val_ls[0][e + 1]

\* a complete run with a positive loss and a negative duration in its log
C2_Witness ==
    /\ Done(0)
    /\ log[0][LossAt(0)].train_loss > 0
    /\ log[0][TimeAt(1)].training < 0

----
----
\* C8: the parameters change in optimizer.step and nowhere else; the
\* validation pass changes neither the parameters nor the calls of the
\* training batch and enters no collective operation.  epoch_loss and val_loss
\* are the sums of the losses of the batches of the current pass of the current
\* epoch, and these are the losses the epoch's line reports.
C8_Frame(p) ==
    /\ params'[p] # params[p] => pc[p] = "opt_step"
    /\ pc[p] \in {"val_start"} \cup ValLabels
         => params'[p] = params[p] /\ coll'[p] = coll[p] /\ ops'[p] = ops[p]
    /\ epoch_loss'[p] # epoch_loss[p] => pc[p] \in {"epoch_start", "accum"}
    /\ val_loss'[p] # val_loss[p] => pc[p] \in {"val_start", "val_accum"}

C8_ValidationFrame ==
    /\ [](\A p \in Procs :
            /\ pc[p] = "train_iter" => epoch_loss[p] = 0
            /\ pc[p] \in TrainLabels \cup {"val_start"}
                 => epoch_loss[p] = Sum(drawn[p]) /\ Len(drawn[p]) = tb[p]
            /\ pc[p] \in ValLabels \cup {"log_epoch", "log_time"}
                 => val_loss[p] = Sum(drawn[p]) /\ Len(drawn[p]) = vb[p]
            /\ pc[p] = "log_time"
                 => log[p][Len(log[p])] =
                      [kind |-> "loss", epoch |-> i[p],
                       train_loss |-> epoch_loss[p], val_loss |-> Sum(drawn[p])])
    /\ [][\A p \in Procs : C8_Frame(p)]_vars

\* the second epoch's line reports no loss, the first epoch's line did
C8_Witness ==
    /\ pc[0] = "log_time" /\ i[0] = 1
    /\ log[0][LossAt(0)].train_loss > 0 /\ log[0][LossAt(0)].val_loss > 0
    /\ epoch_loss[0] = 0 /\ val_loss[0] = 0

====
